---- MODULE Spec2Model ----
(***************************************************************************)
(* Model of lumigo_tracer/sync_http/sync_hook.py: the invocation wrapper   *)
(* (_lumigo_tracer.lambda_wrapper), the one-time installation of the HTTP  *)
(* hooks (wrap_http_calls) and the hook on HTTPConnection.send            *)
(* (_request_wrapper).                                                     *)
(*                                                                         *)
(* Python strings and bytes are sequences of one-character strings.        *)
(* Python values of mixed type are records tagged by field t.              *)
(***************************************************************************)
EXTENDS Integers, Sequences, FiniteSets, TLC

\* Number of invocations of the wrapper in one process.
MaxInvocations == 2

----------------------------------------------------------------------------
(* Python values *)

None == [t |-> "None"]

\* str.lower() on the characters that occur in the model
LowerChar(c) ==
  CASE c = "T" -> "t"
    [] c = "R" -> "r"
    [] c = "U" -> "u"
    [] c = "E" -> "e"
    [] c = "H" -> "h"
    [] c = "O" -> "o"
    [] c = "S" -> "s"
    [] c = "G" -> "g"
    [] c = "P" -> "p"
    [] c = "F" -> "f"
    [] c = "A" -> "a"
    [] c = "L" -> "l"
    [] OTHER -> c

Lower(s) == [i \in 1..Len(s) |-> LowerChar(s[i])]

----------------------------------------------------------------------------
(* The environment flag LUMIGO_SWITCH_OFF *)

EnvUnset == [set |-> FALSE, v |-> <<>>]

EnvStr(s) == [set |-> TRUE, v |-> s]

EnvValues ==
  { EnvUnset,
    EnvStr(<<"t","r","u","e">>),
    EnvStr(<<"T","R","U","E">>),
    EnvStr(<<"T","r","u","e">>),
    EnvStr(<<"f","a","l","s","e">>),
    EnvStr(<<"1">>) }

\* os.environ.get(_KILL_SWITCH, "")
environ_get(e) == IF e.set THEN e.v ELSE <<>>

\* a plausible slip: the flag compared without lower()
KillSwitch_caseSensitive(e) == environ_get(e) = <<"t","r","u","e">>

\* str(os.environ.get(_KILL_SWITCH, "")).lower() == "true"
KillSwitch(e) == Lower(environ_get(e)) = <<"t","r","u","e">>

----------------------------------------------------------------------------
(* Inputs of one invocation *)

\* (*args, **kwargs) of a call of the wrapper
CallArgs ==
  { [args |-> <<"event", "context">>, kwargs |-> {}],
    [args |-> <<"event">>, kwargs |-> {"context"}] }

\* what the wrapped function does when it is called
FuncOutcomes ==
  { [kind |-> "return", v |-> "r1"],
    [kind |-> "raise", v |-> "boom"] }

NoResult == [kind |-> "none", v |-> "None"]

\* the four entry points patched by wrap_http_calls, in the order of the code
EntryPoints ==
  << "HTTPConnection.send", "AWSRequest.__init__",
     "HTTPConnection.getresponse", "HTTPResponse.read" >>

VARIABLES
  env,             \* os.environ[_KILL_SWITCH]
  pc,              \* position of lambda_wrapper
  call,            \* args and kwargs of the current call of the wrapper
  switched_off,    \* outcome of the kill switch test of the current call
  executed,        \* local of lambda_wrapper
  ret_val,         \* local of lambda_wrapper
  local_print,     \* local of lambda_wrapper: print as found at entry
  builtins_print,  \* builtins.print: number of prefixing lambdas around print
  exc,             \* the exception in flight in lambda_wrapper, or "none"
  result,          \* what the caller of the wrapper observes
  span_calls,      \* calls made to SpansContainer and wrapt in this invocation
  func_calls,      \* calls of the wrapped function in this invocation
  already_wrapped, \* module global
  patches,         \* how many times each entry point has been patched
  invocations,     \* number of calls of the wrapper so far
  send_pc,         \* position of _request_wrapper
  send_in,         \* args, kwargs and instance of the intercepted send
  send_arg,        \* the object args[0] as it is now
  send_locals,     \* locals of _request_wrapper
  send_span,       \* calls made by _request_wrapper to the span
  send_raised,     \* the lumigo_safe_execute blocks that caught an exception
  send_transport,  \* calls of the real HTTPConnection.send
  send_result,     \* what the caller of send observes
  events,          \* the Events of the TraceContext, oldest first
  http_n,          \* number of intercepted calls on the connection so far
  http_last,       \* the last intercepted call: what it did and returned
  chalice_adapters, \* the LumigoChalice objects created so far
  chalice_last     \* the last call on an adapter: what it was and returned

lifecycle_vars ==
  << env, pc, call, switched_off, executed, ret_val, local_print,
     builtins_print, exc, result, span_calls, func_calls, already_wrapped,
     patches, invocations >>

send_vars ==
  << send_pc, send_in, send_arg, send_locals, send_span, send_raised,
     send_transport, send_result >>

http_vars == << events, http_n, http_last >>

chalice_vars == << chalice_adapters, chalice_last >>

vars == << lifecycle_vars, send_vars, http_vars, chalice_vars >>

InitLifecycle ==
  /\ pc = "idle"
  /\ call = [args |-> <<>>, kwargs |-> {}]
  /\ switched_off = FALSE
  /\ executed = FALSE
  /\ ret_val = "None"
  /\ local_print = 0
  /\ builtins_print = 0
  /\ exc = "none"
  /\ result = NoResult
  /\ span_calls = <<>>
  /\ func_calls = <<>>
  /\ already_wrapped = FALSE
  /\ patches = [p \in 1..4 |-> 0]
  /\ invocations = 0

\* no send is being intercepted
NoSend ==
  /\ send_pc = "off"
  /\ send_in = [args |-> <<>>, kwargs |-> {}, host |-> None,
                method |-> None, vsn |-> None]
  /\ send_arg = None
  /\ send_locals = [data |-> None, host |-> None, method |-> None,
                    headers |-> None, body |-> None, uri |-> None]
  /\ send_span = <<>>
  /\ send_raised = {}
  /\ send_transport = <<>>
  /\ send_result = NoResult

\* no call on a connection has been intercepted
NoHttp ==
  /\ events = <<>>
  /\ http_n = 0
  /\ http_last = [wrapper |-> "none", input |-> None, real |-> <<>>,
                  span |-> <<>>, result |-> NoResult]

NoChalice ==
  /\ chalice_adapters = << >>
  /\ chalice_last = [op |-> "none", adapter |-> 0, item |-> "", aws |-> FALSE,
                     result |-> NoResult]

Init ==
  /\ env \in EnvValues
  /\ InitLifecycle
  /\ NoSend
  /\ NoHttp
  /\ NoChalice

----------------------------------------------------------------------------
(* lambda_wrapper *)

Logged(name, a, r) == [call |-> name, arg |-> a, raised |-> r]

\* lumigo_safe_execute(part_name): TRUE iff an exception raised in the body
\* of the with block leaves the block. It is caught and logged.
lumigo_safe_execute(raised) == FALSE

\* one call func(*args, **kwargs) with outcome o
FuncCall(c, o) == [args |-> c.args, kwargs |-> c.kwargs, outcome |-> o]

\* a plausible slip: the bypass forwards the positional arguments only
BypassArgs_dropKwargs(c) == [c EXCEPT !.kwargs = {}]

\* the arguments of the bypass call, func(*args, **kwargs)
BypassArgs(c) == c

\* wrapper entry: the kill switch is read from the environment on every call
lambda_wrapper(c) ==
  /\ pc \in {"idle", "done"}
  /\ invocations < MaxInvocations
  /\ invocations' = invocations + 1
  /\ call' = c
  /\ switched_off' = KillSwitch(env)
  /\ pc' = IF KillSwitch(env) THEN "disabled" ELSE "enhanced_print"
  /\ executed' = FALSE
  /\ ret_val' = "None"
  /\ local_print' = builtins_print
  /\ exc' = "none"
  /\ result' = NoResult
  /\ span_calls' = <<>>
  /\ func_calls' = <<>>
  /\ UNCHANGED << env, builtins_print, already_wrapped, patches >>
  /\ UNCHANGED send_vars
  /\ UNCHANGED http_vars
  /\ UNCHANGED chalice_vars

\* kill switch on: return func(*args, **kwargs)
disabled_call ==
  /\ pc = "disabled"
  /\ \E o \in FuncOutcomes :
       /\ func_calls' = Append(func_calls, FuncCall(call, o))
       /\ result' = o
  /\ pc' = "done"
  /\ UNCHANGED << env, call, switched_off, executed, ret_val, local_print,
                  builtins_print, exc, span_calls, already_wrapped, patches,
                  invocations >>
  /\ UNCHANGED send_vars
  /\ UNCHANGED http_vars
  /\ UNCHANGED chalice_vars

\* if is_enhanced_print(): if len(args) >= 2: builtins.print = lambda ...
enhanced_print ==
  /\ pc = "enhanced_print"
  /\ \E r \in {"true", "false", "raise"} :
       /\ builtins_print' = IF r = "true" /\ Len(call.args) >= 2
                            THEN local_print + 1 ELSE builtins_print
       /\ pc' = IF r = "raise" THEN "except" ELSE "create_span"
       /\ exc' = IF r = "raise" THEN "is_enhanced_print_error" ELSE exc
  /\ UNCHANGED << env, call, switched_off, executed, ret_val, local_print,
                  result, span_calls, func_calls, already_wrapped, patches,
                  invocations >>
  /\ UNCHANGED send_vars
  /\ UNCHANGED http_vars
  /\ UNCHANGED chalice_vars

\* SpansContainer.create_span(*args, force=True)
create_span ==
  /\ pc = "create_span"
  /\ \E r \in BOOLEAN :
       /\ span_calls' = Append(span_calls, Logged("create_span", "force", r))
       /\ pc' = IF r THEN "except" ELSE "start"
       /\ exc' = IF r THEN "create_span_error" ELSE exc
  /\ UNCHANGED << env, call, switched_off, executed, ret_val, local_print,
                  builtins_print, result, func_calls, already_wrapped,
                  patches, invocations >>
  /\ UNCHANGED send_vars
  /\ UNCHANGED http_vars
  /\ UNCHANGED chalice_vars

\* a plausible slip: the span is created and never started
start_omitted ==
  /\ pc = "start"
  /\ pc' = "wrap_http_calls"
  /\ UNCHANGED << env, call, switched_off, executed, ret_val, local_print,
                  builtins_print, exc, result, span_calls, func_calls,
                  already_wrapped, patches, invocations >>
  /\ UNCHANGED send_vars
  /\ UNCHANGED http_vars
  /\ UNCHANGED chalice_vars

\* SpansContainer.get_span().start()
start ==
  /\ pc = "start"
  /\ \E r \in BOOLEAN :
       /\ span_calls' = Append(span_calls, Logged("start", "", r))
       /\ pc' = IF r THEN "except" ELSE "wrap_http_calls"
       /\ exc' = IF r THEN "start_error" ELSE exc
  /\ UNCHANGED << env, call, switched_off, executed, ret_val, local_print,
                  builtins_print, result, func_calls, already_wrapped,
                  patches, invocations >>
  /\ UNCHANGED send_vars
  /\ UNCHANGED http_vars
  /\ UNCHANGED chalice_vars

\* The calls of wrap_function_wrapper when the k-th of them raises
\* (k = 5: none raises).
WrapCalls(k) ==
  [i \in 1..(IF k <= 4 THEN k ELSE 4) |->
     Logged("wrap_function_wrapper", EntryPoints[i], i = k)]

\* a plausible slip: the flag is set before the patching is done
WrappedAfter_early(k) == TRUE

\* already_wrapped = True is the last statement of the guarded block
WrappedAfter(k) == k = 5

wrap_http_calls ==
  /\ pc = "wrap_http_calls"
  /\ IF ~already_wrapped
     THEN \E k \in 1..5 :
            /\ span_calls' = span_calls \o WrapCalls(k)
            /\ patches' = [p \in 1..4 |->
                             IF p < k THEN patches[p] + 1 ELSE patches[p]]
            /\ already_wrapped' = WrappedAfter(k)
            /\ pc' = IF lumigo_safe_execute(k <= 4) THEN "except" ELSE "run"
            /\ exc' = IF lumigo_safe_execute(k <= 4) THEN "wrap_error" ELSE exc
     ELSE /\ pc' = "run"
          /\ UNCHANGED << span_calls, patches, already_wrapped, exc >>
  /\ UNCHANGED << env, call, switched_off, executed, ret_val, local_print,
                  builtins_print, result, func_calls, invocations >>
  /\ UNCHANGED send_vars
  /\ UNCHANGED http_vars
  /\ UNCHANGED chalice_vars

\* executed = True; ret_val = func(*args, **kwargs)
run ==
  /\ pc = "run"
  /\ executed' = TRUE
  /\ \E o \in FuncOutcomes :
       /\ func_calls' = Append(func_calls, FuncCall(call, o))
       /\ IF o.kind = "return"
          THEN /\ ret_val' = o.v
               /\ pc' = "end"
               /\ exc' = exc
          ELSE /\ ret_val' = ret_val
               /\ pc' = "add_exception_event"
               /\ exc' = o.v
  /\ UNCHANGED << env, call, switched_off, local_print, builtins_print,
                  result, span_calls, already_wrapped, patches, invocations >>
  /\ UNCHANGED send_vars
  /\ UNCHANGED http_vars
  /\ UNCHANGED chalice_vars

\* except Exception as e: SpansContainer.get_span().add_exception_event(e); raise
add_exception_event ==
  /\ pc = "add_exception_event"
  /\ \E r \in BOOLEAN :
       /\ span_calls' = Append(span_calls, Logged("add_exception_event", exc, r))
       /\ exc' = IF r THEN "add_exception_event_error" ELSE exc
  /\ pc' = "end"
  /\ UNCHANGED << env, call, switched_off, executed, ret_val, local_print,
                  builtins_print, result, func_calls, already_wrapped,
                  patches, invocations >>
  /\ UNCHANGED send_vars
  /\ UNCHANGED http_vars
  /\ UNCHANGED chalice_vars

\* finally: SpansContainer.get_span().end(ret_val); builtins.print = local_print
\* and then return ret_val, or the exception in flight goes on
finally_end ==
  /\ pc = "end"
  /\ \E r \in BOOLEAN :
       /\ span_calls' = Append(span_calls, Logged("end", ret_val, r))
       /\ builtins_print' = IF r THEN builtins_print ELSE local_print
       /\ exc' = IF r THEN "end_error" ELSE exc
       /\ IF ~r /\ exc = "none"
          THEN /\ pc' = "done"
               /\ result' = [kind |-> "return", v |-> ret_val]
          ELSE /\ pc' = "except"
               /\ result' = result
  /\ UNCHANGED << env, call, switched_off, executed, ret_val, local_print,
                  func_calls, already_wrapped, patches, invocations >>
  /\ UNCHANGED send_vars
  /\ UNCHANGED http_vars
  /\ UNCHANGED chalice_vars

\* a plausible slip: the bypass is taken whenever the wrapper caught something
Bypass_always(e) == TRUE

\* if not executed: the function has not been called yet
Bypass(e) == ~e

\* except Exception: if not executed: return func(*args, **kwargs) else: raise
outer_except ==
  /\ pc = "except"
  /\ IF Bypass(executed)
     THEN \E o \in FuncOutcomes :
            /\ func_calls' = Append(func_calls, FuncCall(BypassArgs(call), o))
            /\ result' = o
     ELSE /\ result' = [kind |-> "raise", v |-> exc]
          /\ func_calls' = func_calls
  /\ pc' = "done"
  /\ UNCHANGED << env, call, switched_off, executed, ret_val, local_print,
                  builtins_print, exc, span_calls, already_wrapped, patches,
                  invocations >>
  /\ UNCHANGED send_vars
  /\ UNCHANGED http_vars
  /\ UNCHANGED chalice_vars

\* the environment changes between two invocations
setenv(e) ==
  /\ pc \in {"idle", "done"}
  /\ invocations < MaxInvocations
  /\ e # env
  /\ env' = e
  /\ UNCHANGED << pc, call, switched_off, executed, ret_val, local_print,
                  builtins_print, exc, result, span_calls, func_calls,
                  already_wrapped, patches, invocations >>
  /\ UNCHANGED send_vars
  /\ UNCHANGED http_vars
  /\ UNCHANGED chalice_vars

Next ==
  \/ \E c \in CallArgs : lambda_wrapper(c)
  \/ disabled_call
  \/ enhanced_print
  \/ create_span
  \/ start
  \/ wrap_http_calls
  \/ run
  \/ add_exception_event
  \/ finally_end
  \/ outer_except
  \/ \E e \in EnvValues : setenv(e)

Spec == Init /\ [][Next]_vars

----------------------------------------------------------------------------
(* Properties of lambda_wrapper and wrap_http_calls *)

\* the outcome of the last call of the wrapped function in this invocation
FuncOutcome == func_calls[Len(func_calls)].outcome

\* C1: whatever tracing step fails, the caller of the wrapper observes the
\* wrapped function's own outcome, the same return value or the same
\* exception.
C1_OutcomePreserved ==
  pc = "done" => (Len(func_calls) >= 1 /\ result = FuncOutcome)

\* C2: when the wrapped function raises during RUN, an exception event with
\* that exception is recorded, the TraceContext is ended after it, the same
\* exception reaches the caller, and the function is called only once.
C2_HandlerExceptionRecorded ==
  (pc = "done" /\ executed /\ func_calls[1].outcome.kind = "raise") =>
     /\ \E i \in 1..Len(span_calls) :
          /\ span_calls[i] =
               Logged("add_exception_event", func_calls[1].outcome.v, FALSE)
          /\ \E j \in (i+1)..Len(span_calls) :
               span_calls[j] = Logged("end", "None", FALSE)
     /\ result = [kind |-> "raise", v |-> func_calls[1].outcome.v]
     /\ Len(func_calls) = 1

PreRunErrors ==
  {"is_enhanced_print_error", "create_span_error", "start_error", "wrap_error"}

\* C3: when a step before RUN raises, the exception is caught, the wrapped
\* function is called once, directly, with the original positional and
\* keyword arguments, and the caller receives its outcome.
C3_PreRunBypass ==
  /\ (pc = "except" /\ exc \in PreRunErrors) => ~executed
  /\ (pc = "done" /\ exc \in PreRunErrors) =>
        /\ Len(func_calls) = 1
        /\ func_calls[1].args = call.args
        /\ func_calls[1].kwargs = call.kwargs
        /\ result = func_calls[1].outcome

C3_Witness ==
  /\ pc = "done"
  /\ exc = "create_span_error"
  /\ call.kwargs = {"context"}
  /\ result = [kind |-> "return", v |-> "r1"]

\* the spellings of "true" in any mix of upper and lower case
TrueVariants ==
  { <<a, b, c, d>> : a \in {"t", "T"}, b \in {"r", "R"},
                     c \in {"u", "U"}, d \in {"e", "E"} }

C5_PatchedAtMostOnce == \A p \in 1..4 : patches[p] <= 1

\* C6: a failure while patching does not leave wrap_http_calls, the flag
\* stays false, the invocation goes on to RUN, and an invocation that finds
\* the flag false attempts the installation (again).
C6_InstallFailureIsolated ==
  [][ pc = "wrap_http_calls" =>
        /\ pc' = "run"
        /\ exc' = exc
        /\ ~already_wrapped =>
             /\ Len(span_calls') > Len(span_calls)
             /\ span_calls'[Len(span_calls) + 1].call = "wrap_function_wrapper"
        /\ (\E i \in 1..Len(span_calls') :
              /\ span_calls'[i].call = "wrap_function_wrapper"
              /\ span_calls'[i].raised) => ~already_wrapped'
    ]_vars

\* the second invocation retries after a failed first installation, fails
\* again and still reaches RUN
C6_Witness ==
  /\ pc = "run"
  /\ invocations = 2
  /\ ~already_wrapped
  /\ patches[1] = 2
  /\ span_calls[Len(span_calls)].raised

----------------------------------------------------------------------------
(* Python values handled by _request_wrapper *)

Bytes(b) == [t |-> "bytes", v |-> b]

Str(x) == [t |-> "str", v |-> x]

\* io.BytesIO: content, read position, closed or not
BytesIO(b, p, c) == [t |-> "BytesIO", v |-> b, pos |-> p, closed |-> c]

\* http.client.HTTPMessage: the header lines in order, << name, value >>
HTTPMessage(h) == [t |-> "HTTPMessage", v |-> h]

\* truth value of a Python object (bytes, str and HTTPMessage have __len__)
Truthy(x) ==
  CASE x.t = "None" -> FALSE
    [] x.t \in {"bytes", "str", "HTTPMessage"} -> Len(x.v) > 0
    [] OTHER -> TRUE

BODY_HEADER_SPLITTER == << "\r", "\n", "\r", "\n" >>

FLAGS_HEADER_SPLITTER == << "\r", "\n" >>

MAX_READ_SIZE == 1024

\* index of the first occurrence of sub in b, 0 when there is none
Find(sub, b) ==
  LET hits == { i \in 1..(Len(b) - Len(sub) + 1) :
                  SubSeq(b, i, i + Len(sub) - 1) = sub }
  IN IF hits = {} THEN 0
     ELSE CHOOSE i \in hits : \A j \in hits : i <= j

\* sub in b
Contains(sub, b) == Find(sub, b) # 0

\* b.split(sep, 1) for a b that contains sep
Split1(b, sep) ==
  << SubSeq(b, 1, Find(sep, b) - 1),
     SubSeq(b, Find(sep, b) + Len(sep), Len(b)) >>

\* b.split(sep): all the pieces
RECURSIVE SplitAll(_, _)
SplitAll(b, sep) ==
  IF ~Contains(sep, b) THEN << b >>
  ELSE << Split1(b, sep)[1] >> \o SplitAll(Split1(b, sep)[2], sep)

\* x.replace(old, ""): every occurrence of old removed, left to right
RECURSIVE Remove(_, _)
Remove(x, old) ==
  IF Len(old) = 0 \/ ~Contains(old, x) THEN x
  ELSE Split1(x, old)[1] \o Remove(Split1(x, old)[2], old)

Whitespace == { " ", "\t", "\r", "\n" }

\* x.strip()
RECURSIVE Strip(_)
Strip(x) ==
  IF x = << >> THEN x
  ELSE IF Head(x) \in Whitespace THEN Strip(Tail(x))
  ELSE IF x[Len(x)] \in Whitespace THEN Strip(SubSeq(x, 1, Len(x) - 1))
  ELSE x

\* a byte outside ASCII: bytes.decode("ascii") raises on it
NonAscii == "\\xff"

IsAscii(b) == \A i \in 1..Len(b) : b[i] # NonAscii

\* http.client.parse_headers on the header lines: every line "name: value"
\* gives an entry, and the first line without a colon ends the headers
RECURSIVE HeaderLines(_)
HeaderLines(lines) ==
  IF lines = << >> \/ ~Contains(<< ":" >>, Head(lines)) THEN << >>
  ELSE << << Split1(Head(lines), << ":" >>)[1],
             Strip(Split1(Head(lines), << ":" >>)[2]) >> >>
       \o HeaderLines(Tail(lines))

parse_headers(b) == HTTPMessage(HeaderLines(SplitAll(b, FLAGS_HEADER_SPLITTER)))

\* headers.get(name): the first entry of that name in any letter case, or None
HeadersGet(h, name) ==
  LET hits == { i \in 1..Len(h.v) : Lower(h.v[i][1]) = Lower(name) }
  IN IF hits = {} THEN None
     ELSE Str(h.v[CHOOSE i \in hits : \A j \in hits : i <= j][2])

\* str(x) inside an f-string
Format(x) == IF x.t = "None" THEN << "N", "o", "n", "e" >> ELSE x.v

----------------------------------------------------------------------------
(* _request_wrapper *)

\* the bytes data.read(MAX_READ_SIZE) returns from the current position
ReadBytes(a) ==
  IF a.pos >= Len(a.v) THEN << >>
  ELSE IF Len(a.v) - a.pos <= MAX_READ_SIZE THEN SubSeq(a.v, a.pos + 1, Len(a.v))
  ELSE SubSeq(a.v, a.pos + 1, a.pos + MAX_READ_SIZE)

\* current_pos = data.tell(); data = data.read(MAX_READ_SIZE), and then
\* a plausible slip: the position is not restored
PeekStream_noSeek(a) ==
  IF a.t # "BytesIO" THEN [data |-> a, arg |-> a, raised |-> FALSE]
  ELSE IF a.closed THEN [data |-> a, arg |-> a, raised |-> TRUE]
  ELSE [data |-> Bytes(ReadBytes(a)),
        arg |-> [a EXCEPT !.pos = a.pos + Len(ReadBytes(a))],
        raised |-> FALSE]

\* if isinstance(data, BytesIO): current_pos = data.tell();
\* data = data.read(MAX_READ_SIZE); args[0].seek(current_pos)
\* tell, read and seek raise ValueError on a closed stream
PeekStream(a) ==
  IF a.t # "BytesIO" THEN [data |-> a, arg |-> a, raised |-> FALSE]
  ELSE IF a.closed THEN [data |-> a, arg |-> a, raised |-> TRUE]
  ELSE [data |-> Bytes(ReadBytes(a)),
        arg |-> [[a EXCEPT !.pos = a.pos + Len(ReadBytes(a))]
                   EXCEPT !.pos = a.pos],
        raised |-> FALSE]

\* request_info.decode("ascii").replace(method, "")
\*   .replace(instance._http_vsn_str, "").strip()
PathAndQueryParams(request_info, method, vsn) ==
  Strip(Remove(Remove(request_info, method.v), vsn.v))

\* decode raises on a byte outside ASCII, replace raises on an argument that
\* is not a str
PathRaises(request_info, method, vsn) ==
  ~IsAscii(request_info) \/ method.t # "str" \/ vsn.t # "str"

\* the block "parse request": the locals host, headers, body and uri at the
\* end of the block, which an exception leaves where it was raised
ParseRequest(data, host, method, vsn) ==
  IF ~(data.t = "bytes" /\ Contains(BODY_HEADER_SPLITTER, data.v))
  THEN [host |-> host, headers |-> None, body |-> None, uri |-> None,
        raised |-> FALSE]
  ELSE LET hb == Split1(data.v, BODY_HEADER_SPLITTER) IN
    IF ~Contains(FLAGS_HEADER_SPLITTER, hb[1])
    THEN [host |-> host, headers |-> Bytes(hb[1]), body |-> Bytes(hb[2]),
          uri |-> None, raised |-> FALSE]
    ELSE LET rl == Split1(hb[1], FLAGS_HEADER_SPLITTER)
             parsed == parse_headers(rl[2])
         IN IF PathRaises(rl[1], method, vsn)
            THEN [host |-> host, headers |-> parsed, body |-> Bytes(hb[2]),
                  uri |-> None, raised |-> TRUE]
            ELSE [host |-> IF Truthy(host) THEN host
                           ELSE HeadersGet(parsed, << "H", "o", "s", "t" >>),
                  headers |-> parsed,
                  body |-> Bytes(hb[2]),
                  uri |-> Str(Format(host)
                              \o PathAndQueryParams(rl[1], method, vsn)),
                  raised |-> FALSE]

\* HttpRequest(host=, method=, uri=, headers=, body=); headers not given: None
HttpRequest(host, method, uri, headers, body) ==
  [host |-> host, method |-> method, uri |-> uri, headers |-> headers,
   body |-> body]

SpanCall(name, rec, raised) == [call |-> name, rec |-> rec, raised |-> raised]

\* a plausible slip: the unparsed record takes the local body, not data
RequestCall_bodyLocal(l, raised) ==
  IF Truthy(l.headers)
  THEN SpanCall("add_request_event",
                HttpRequest(l.host, l.method, l.uri, l.headers, l.body), raised)
  ELSE SpanCall("add_unparsed_request",
                HttpRequest(l.host, l.method, l.uri, None, l.body), raised)

\* the block "add request event"
RequestCall(l, raised) ==
  IF Truthy(l.headers)
  THEN SpanCall("add_request_event",
                HttpRequest(l.host, l.method, l.uri, l.headers, l.body), raised)
  ELSE SpanCall("add_unparsed_request",
                HttpRequest(l.host, l.method, l.uri, None, l.data), raised)

\* a plausible slip: the real send is given the bytes that were peeked
TransportArg_peeked(arg, data) == data

\* func(*args, **kwargs): args[0] is the caller's object
TransportArg(arg, data) == arg

\* what the real HTTPConnection.send does
TransportOutcomes ==
  { [kind |-> "return", v |-> "sent"],
    [kind |-> "raise", v |-> "OSError"] }

\* data = safe_get(args, 0) and the block "parse requested streams"
send_peek ==
  /\ send_pc = "peek"
  /\ send_arg' = PeekStream(send_arg).arg
  /\ send_locals' = [send_locals EXCEPT !.data = PeekStream(send_arg).data]
  /\ IF lumigo_safe_execute(PeekStream(send_arg).raised)
     THEN /\ send_pc' = "done"
          /\ send_result' = [kind |-> "raise", v |-> "ValueError"]
     ELSE /\ send_pc' = "parse"
          /\ send_result' = send_result
  /\ send_raised' = IF PeekStream(send_arg).raised
                    THEN send_raised \cup {"parse requested streams"}
                    ELSE send_raised
  /\ UNCHANGED << send_in, send_span, send_transport >>
  /\ UNCHANGED lifecycle_vars
  /\ UNCHANGED http_vars
  /\ UNCHANGED chalice_vars

\* host, method, headers, body, uri = ... and the block "parse request"
send_parse ==
  /\ send_pc = "parse"
  /\ LET r == ParseRequest(send_locals.data, send_in.host, send_in.method,
                           send_in.vsn)
     IN /\ send_raised' = IF r.raised
                          THEN send_raised \cup {"parse request"}
                          ELSE send_raised
        /\ send_locals' = [data |-> send_locals.data, host |-> r.host,
                           method |-> send_in.method, headers |-> r.headers,
                           body |-> r.body, uri |-> r.uri]
        /\ IF lumigo_safe_execute(r.raised)
           THEN /\ send_pc' = "done"
                /\ send_result' = [kind |-> "raise", v |-> "parse_error"]
           ELSE /\ send_pc' = "event"
                /\ send_result' = send_result
  /\ UNCHANGED << send_in, send_arg, send_span, send_transport >>
  /\ UNCHANGED lifecycle_vars
  /\ UNCHANGED http_vars
  /\ UNCHANGED chalice_vars

\* the block "add request event": the span's method may raise
send_event ==
  /\ send_pc = "event"
  /\ \E raised \in BOOLEAN :
       /\ send_span' = Append(send_span, RequestCall(send_locals, raised))
       /\ send_raised' = IF raised
                         THEN send_raised \cup {"add request event"}
                         ELSE send_raised
       /\ IF lumigo_safe_execute(raised)
          THEN /\ send_pc' = "done"
               /\ send_result' = [kind |-> "raise", v |-> "span_error"]
          ELSE /\ send_pc' = "transport"
               /\ send_result' = send_result
  /\ UNCHANGED << send_in, send_arg, send_locals, send_transport >>
  /\ UNCHANGED lifecycle_vars
  /\ UNCHANGED http_vars
  /\ UNCHANGED chalice_vars

\* a plausible slip: the end time is marked in a finally clause
AfterTransport_finally(o) == "end_time"

\* an exception of func leaves the wrapper, a return goes on to line 71
AfterTransport(o) == IF o.kind = "raise" THEN "done" ELSE "end_time"

\* ret_val = func(*args, **kwargs)
send_func ==
  /\ send_pc = "transport"
  /\ \E o \in TransportOutcomes :
       /\ send_transport' =
            Append(send_transport,
                   [args |-> << TransportArg(send_arg, send_locals.data) >>,
                    kwargs |-> send_in.kwargs,
                    outcome |-> o])
       /\ send_pc' = AfterTransport(o)
       /\ send_result' = IF AfterTransport(o) = "done" THEN o ELSE send_result
  /\ UNCHANGED << send_in, send_arg, send_locals, send_span, send_raised >>
  /\ UNCHANGED lifecycle_vars
  /\ UNCHANGED http_vars
  /\ UNCHANGED chalice_vars

\* the block "add response event" and return ret_val
send_end_time ==
  /\ send_pc = "end_time"
  /\ \E raised \in BOOLEAN :
       /\ send_span' =
            Append(send_span, SpanCall("update_event_end_time", None, raised))
       /\ send_raised' = IF raised
                         THEN send_raised \cup {"add response event"}
                         ELSE send_raised
       /\ send_result' =
            IF lumigo_safe_execute(raised)
            THEN [kind |-> "raise", v |-> "span_error"]
            ELSE send_transport[Len(send_transport)].outcome
  /\ send_pc' = "done"
  /\ UNCHANGED << send_in, send_arg, send_locals, send_transport >>
  /\ UNCHANGED lifecycle_vars
  /\ UNCHANGED http_vars
  /\ UNCHANGED chalice_vars

----------------------------------------------------------------------------
(* The sends that are intercepted *)

GET == << "G", "E", "T" >>

HTTP11 == << "H", "T", "T", "P", "/", "1", ".", "1" >>

CRLF == << "\r", "\n" >>

HostHeader == << "H", "o", "s", "t", ":", " ", "a", ".", "i", "o" >>

RequestLine(path) == GET \o << " " >> \o path \o << " " >> \o HTTP11

\* length of the stream that is longer than one bounded read
LongLen == 1030

SendBuffers ==
  { \* a request with one header and no body
    RequestLine(<< "/", "f", "?", "x" >>) \o CRLF \o HostHeader \o CRLF \o CRLF,
    \* the same with a body
    RequestLine(<< "/", "f" >>) \o CRLF \o HostHeader \o CRLF \o CRLF
      \o << "b", "o", "d", "y" >>,
    \* the path contains the method token
    RequestLine(<< "/", "G", "E", "T" >>) \o CRLF \o HostHeader \o CRLF \o CRLF,
    \* a header name in lower case
    RequestLine(<< "/" >>) \o CRLF \o << "h", "o", "s", "t", ":", "b" >>
      \o CRLF \o CRLF,
    \* a byte outside ASCII in the request line
    RequestLine(<< "/", NonAscii >>) \o CRLF \o HostHeader \o CRLF \o CRLF,
    \* a request line and the boundary, no header line
    RequestLine(<< "/", "f" >>) \o CRLF \o CRLF \o << "b" >>,
    \* the lines after the request line are no headers
    RequestLine(<< "/", "f" >>) \o CRLF \o << "x", "y" >> \o CRLF \o CRLF,
    \* the boundary first
    CRLF \o CRLF \o << "b" >>,
    \* a continuation write: body bytes only
    << "b", "o", "d", "y" >>,
    << "b", "\r", "\n", "c" >>,
    << >> }

StreamBuffers ==
  { RequestLine(<< "/", "f" >>) \o CRLF \o HostHeader \o CRLF \o CRLF
      \o << "b", "o", "d", "y" >>,
    << "b", "o", "d", "y" >>,
    [i \in 1..LongLen |-> "x"] }

SendArgs ==
  { Bytes(b) : b \in SendBuffers }
  \cup { BytesIO(b, p, c) : b \in StreamBuffers, p \in {0, 2}, c \in BOOLEAN }
  \cup { BytesIO(b, Len(b), FALSE) : b \in StreamBuffers }
  \cup { Str(<< "t", "x", "t" >>) }

SendInputs ==
  { [args |-> << a >>, kwargs |-> k, host |-> h, method |-> m, vsn |-> v] :
      a \in SendArgs,
      k \in { {}, {"flags"} },
      h \in { None, Str(<< >>), Str(<< "a", ".", "i", "o" >>) },
      m \in { None, Str(GET) },
      v \in { None, Str(HTTP11) } }

InitSend ==
  /\ env = EnvUnset
  /\ InitLifecycle
  /\ NoHttp
  /\ NoChalice
  /\ send_pc = "peek"
  /\ send_in \in SendInputs
  /\ send_arg = send_in.args[1]
  /\ send_locals = [data |-> None, host |-> None, method |-> None,
                    headers |-> None, body |-> None, uri |-> None]
  /\ send_span = <<>>
  /\ send_raised = {}
  /\ send_transport = <<>>
  /\ send_result = NoResult

NextSend ==
  \/ send_peek
  \/ send_parse
  \/ send_event
  \/ send_func
  \/ send_end_time

SpecSend == InitSend /\ [][NextSend]_vars

----------------------------------------------------------------------------
(* Properties of _request_wrapper *)

\* the argument of the intercepted send, as the caller passed it
SendArg == send_in.args[1]

\* C7: whatever the input and whichever block raises, the real send is called
\* exactly once, with the caller's positional and keyword arguments as they
\* were at interception, and its outcome is what the caller gets.
C7_TransportCalledOnce ==
  /\ Len(send_transport) <= 1
  /\ send_pc \in {"peek", "parse", "event", "transport"} =>
        Len(send_transport) = 0
  /\ send_pc \in {"end_time", "done"} =>
        /\ Len(send_transport) = 1
        /\ send_transport[1].args = send_in.args
        /\ send_transport[1].kwargs = send_in.kwargs
  /\ send_pc = "done" => send_result = send_transport[1].outcome

\* a stream is sent, parsing and the recording both fail, send returns
C7_Witness ==
  /\ send_pc = "done"
  /\ SendArg.t = "BytesIO"
  /\ SendArg.pos = 2
  /\ {"parse request", "add request event"} \subseteq send_raised
  /\ send_result = [kind |-> "return", v |-> "sent"]

\* C8: for a stream input the read position is, once the peek step is left
\* and at the real send, the position before interception, on every path.
C8_StreamPositionRestored ==
  SendArg.t = "BytesIO" =>
    /\ send_arg.t = "BytesIO"
    /\ send_pc # "peek" => send_arg.pos = SendArg.pos
    /\ \A i \in 1..Len(send_transport) :
         /\ send_transport[i].args[1].t = "BytesIO"
         /\ send_transport[i].args[1].pos = SendArg.pos

\* a stream read from position 2 on, whose parse fails, reaches the real send
C8_Witness ==
  /\ Len(send_transport) = 1
  /\ SendArg.t = "BytesIO"
  /\ ~SendArg.closed
  /\ SendArg.pos = 2
  /\ Len(send_locals.data.v) > 0
  /\ "parse request" \in send_raised

\* the bytes the wrapper looks at: the flat input, or what a bounded read of
\* the stream gives from its position
RawInput ==
  IF SendArg.t = "BytesIO" /\ ~SendArg.closed
  THEN Bytes([i \in 1..(IF Len(SendArg.v) - SendArg.pos > 1024 THEN 1024
                        ELSE Len(SendArg.v) - SendArg.pos) |->
                SendArg.v[SendArg.pos + i]])
  ELSE SendArg

\* the double CRLF occurs in b
HasBoundary(b) ==
  \E i \in 1..(Len(b) - 3) :
    b[i] = "\r" /\ b[i+1] = "\n" /\ b[i+2] = "\r" /\ b[i+3] = "\n"

\* C9: a buffer without the double CRLF is recorded by add_unparsed_request
\* with the connection's host and method, the raw input as body and no
\* headers; add_request_event is not called.
C9_NoBoundaryUnparsed ==
  (send_pc \in {"transport", "end_time", "done"}
     /\ (RawInput.t = "bytes" => ~HasBoundary(RawInput.v))) =>
    /\ send_span[1].call = "add_unparsed_request"
    /\ send_span[1].rec.host = send_in.host
    /\ send_span[1].rec.method = send_in.method
    /\ send_span[1].rec.body = RawInput
    /\ send_span[1].rec.headers = None
    /\ \A i \in 1..Len(send_span) : send_span[i].call # "add_request_event"

\* a long stream without boundary: the body is the bounded prefix
C9_Witness ==
  /\ send_pc = "done"
  /\ SendArg.t = "BytesIO"
  /\ SendArg.pos = 2
  /\ send_span[1].call = "add_unparsed_request"
  /\ ~send_span[1].raised
  /\ Len(send_span[1].rec.body.v) = 1024
  /\ send_span[1].rec.host = Str(<< "a", ".", "i", "o" >>)

\* C10: when the block "parse request" raises, the request is recorded by
\* add_unparsed_request with no headers and the raw bytes as body, never by
\* add_request_event.
C10_ParseFailureUnparsed ==
  (send_pc \in {"transport", "end_time", "done"}
     /\ "parse request" \in send_raised) =>
    /\ send_span[1].call = "add_unparsed_request"
    /\ send_span[1].rec.headers = None
    /\ send_span[1].rec.body = RawInput

\* the request line of a buffer: the bytes before the first CR
RequestLineOf(b) ==
  SubSeq(b, 1, (CHOOSE i \in 1..Len(b) :
                  b[i] = "\r" /\ \A j \in 1..(i-1) : b[j] # "\r") - 1)

\* the token between the first and the last space of a request line
PathToken(line) ==
  SubSeq(line,
         (CHOOSE i \in 1..Len(line) :
            line[i] = " " /\ \A j \in 1..(i-1) : line[j] # " ") + 1,
         (CHOOSE i \in 1..Len(line) :
            line[i] = " " /\ \A j \in (i+1)..Len(line) : line[j] # " ") - 1)

\* flat bytes "METHOD path VERSION", CRLF, header lines, double CRLF, body,
\* sent on a connection that knows this method and this version
WellFormedRequest ==
  /\ SendArg.t = "bytes"
  /\ HasBoundary(SendArg.v)
  /\ send_in.method = Str(GET)
  /\ send_in.vsn = Str(HTTP11)
  /\ \A i \in 1..Len(SendArg.v) : SendArg.v[i] # NonAscii
  /\ Len(RequestLineOf(SendArg.v)) > Len(GET) + Len(HTTP11) + 2
  /\ SubSeq(RequestLineOf(SendArg.v), 1, 4) = GET \o << " " >>
  /\ SubSeq(RequestLineOf(SendArg.v),
            Len(RequestLineOf(SendArg.v)) - Len(HTTP11),
            Len(RequestLineOf(SendArg.v))) = << " " >> \o HTTP11
  /\ SubSeq(SendArg.v, Len(RequestLineOf(SendArg.v)) + 1,
            Len(RequestLineOf(SendArg.v)) + 4) # BODY_HEADER_SPLITTER

\* C11: for a well-formed request the recorded uri is the record's host
\* followed by exactly the path token of the request line.
C11_UriIsHostPlusPath ==
  (send_pc \in {"transport", "end_time", "done"} /\ WellFormedRequest
     /\ send_span[1].rec.host.t = "str") =>
    send_span[1].rec.uri =
      Str(send_span[1].rec.host.v \o PathToken(RequestLineOf(SendArg.v)))

----------------------------------------------------------------------------
(* Further properties of lambda_wrapper *)

\* C17: on every path the wrapped function is called exactly once.
C17_FuncCalledOnce ==
  /\ Len(func_calls) <= 1
  /\ pc = "done" => Len(func_calls) = 1

\* the function raised, recording the exception failed too, and the caller
\* is reached with one call of the function
C17_Witness ==
  /\ pc = "done"
  /\ executed
  /\ exc = "add_exception_event_error"
  /\ Len(func_calls) = 1

\* C18: when the wrapper has returned or raised, builtins.print is what it
\* was when the wrapper was entered.
C18_PrintRestored == pc = "done" => builtins_print = local_print

\* the names of the calls made to the span, the patching left out
LifecycleCalls ==
  LET IsSpanCall(c) == c.call # "wrap_function_wrapper"
      l == SelectSeq(span_calls, IsSpanCall)
  IN [i \in 1..Len(l) |-> l[i].call]

IsPrefix(a, b) == Len(a) <= Len(b) /\ SubSeq(b, 1, Len(a)) = a

\* C19: a traced invocation calls create_span, start, the installation, the
\* function, add_exception_event if the function raised, and end, in this
\* order; end is called exactly once if the function was called in RUN, after
\* its outcome is known, and never on the disabled or the bypass path.
C19_LifecycleOrder ==
  /\ \/ IsPrefix(LifecycleCalls, << "create_span", "start", "end" >>)
     \/ IsPrefix(LifecycleCalls,
                 << "create_span", "start", "add_exception_event", "end" >>)
  /\ \A i \in 1..Len(span_calls) :
       span_calls[i].call = "wrap_function_wrapper" =>
         /\ i > 2
         /\ span_calls[i-1].call \in {"start", "wrap_function_wrapper"}
  /\ pc \in {"wrap_http_calls", "run"} =>
       /\ LifecycleCalls = << "create_span", "start" >>
       /\ ~span_calls[1].raised /\ ~span_calls[2].raised
       /\ func_calls = << >>
  /\ pc \in {"add_exception_event", "end"} =>
       /\ Len(func_calls) = 1
       /\ executed
  /\ \A i \in 1..Len(span_calls) :
       span_calls[i].call \in {"add_exception_event", "end"} =>
         /\ executed
         /\ Len(func_calls) = 1
         /\ span_calls[i].call = "add_exception_event" =>
              /\ func_calls[1].outcome.kind = "raise"
              /\ span_calls[i].arg = func_calls[1].outcome.v
         /\ span_calls[i].call = "end" =>
              /\ i = Len(span_calls)
              /\ span_calls[i].arg = IF func_calls[1].outcome.kind = "return"
                                     THEN func_calls[1].outcome.v ELSE "None"
              /\ func_calls[1].outcome.kind = "raise" =>
                   span_calls[i-1].call = "add_exception_event"
  /\ pc \in {"except", "done"} =>
       (executed <=> (Len(span_calls) > 0
                        /\ span_calls[Len(span_calls)].call = "end"))
  /\ switched_off => span_calls = << >>

\* the function raised in RUN after a full installation
C19_Witness ==
  /\ pc = "done"
  /\ Len(span_calls) = 8
  /\ LifecycleCalls = << "create_span", "start", "add_exception_event", "end" >>
  /\ result = [kind |-> "raise", v |-> "boom"]

----------------------------------------------------------------------------
(* Further properties of _request_wrapper *)

RequestCalls == {"add_request_event", "add_unparsed_request"}

\* C20: exactly one request record is handed to the span, before the real
\* send; update_event_end_time is called only after the real send returned.
C20_OneRecordBeforeSend ==
  /\ send_pc \in {"peek", "parse", "event"} =>
       /\ send_span = << >>
       /\ send_transport = << >>
  /\ send_pc \in {"transport", "end_time", "done"} =>
       /\ Len(send_span) >= 1
       /\ send_span[1].call \in RequestCalls
       /\ \A i \in 2..Len(send_span) : send_span[i].call \notin RequestCalls
  /\ send_pc \in {"transport", "end_time"} => Len(send_span) = 1
  /\ \A i \in 1..Len(send_span) :
       send_span[i].call = "update_event_end_time" =>
         /\ i = 2
         /\ Len(send_span) = 2
         /\ Len(send_transport) = 1
         /\ send_transport[1].outcome.kind = "return"
  /\ (send_pc = "done" /\ send_transport[1].outcome.kind = "raise") =>
       Len(send_span) = 1
  /\ (send_pc = "done" /\ send_transport[1].outcome.kind = "return") =>
       Len(send_span) = 2

\* the real send raises after a parsed request was recorded
C20_Witness ==
  /\ send_pc = "done"
  /\ send_span[1].call = "add_request_event"
  /\ send_transport[1].outcome.kind = "raise"
  /\ send_result = [kind |-> "raise", v |-> "OSError"]

----------------------------------------------------------------------------
(* The TraceContext's Events, as the span keeps them *)

\* number of intercepted calls on one connection
MaxHttpCalls == 4

Event(state, status, headers, body, trail) ==
  [state |-> state, status |-> status, headers |-> headers, body |-> body,
   trail |-> trail]

\* an Event is open until it is CLOSED; the target of an update is the most
\* recently opened Event
EventOpen(ev) == ev # << >> /\ ev[Len(ev)].state # "CLOSED"

\* add_request_event / add_unparsed_request: a new Event is opened
add_request_event(ev) ==
  Append(ev, Event("OPEN", None, None, Bytes(<< >>), << "OPEN" >>))

\* update_event_response(host, status, headers, body): no Event open: nothing
\* happens; else the most recent Event gets status and headers, and is
\* RESPONSE_ATTACHED while the body is empty, CLOSED with a body
update_event_response(ev, u) ==
  IF ~EventOpen(ev) THEN ev
  ELSE LET st == IF Truthy(u.body) THEN "CLOSED" ELSE "RESPONSE_ATTACHED"
       IN [ev EXCEPT ![Len(ev)] =
             Event(st, u.status, u.headers, u.body, Append(@.trail, st))]

----------------------------------------------------------------------------
(* _response_wrapper, _read_wrapper, _putheader_wrapper *)

\* the response handles: HTTPResponse objects with code and headers
PyInt(n) == [t |-> "int", v |-> n]

Handles ==
  { [t |-> "HTTPResponse", code |-> PyInt(c),
     headers |-> HTTPMessage(<< << "Content-Length", "2" >> >>)] :
      c \in {200, 404} }

\* what the real HTTPResponse.read returns
ReadResults == { Bytes(<< >>), None, Bytes(<< "o", "k" >>) }

\* one intercepted call: the wrapper, what it was called with, the real calls
\* and the TraceContext calls it made, and what reached the caller
HttpCall(w, input, real, span, res) ==
  [wrapper |-> w, input |-> input, real |-> real, span |-> span,
   result |-> res]

\* one call of the real function: its arguments and what it returned
RealCall(a, out) == [args |-> a, out |-> out]

\* the real function raised
Raised == [t |-> "raise"]

UpdateCall(u, raised) ==
  [call |-> "update_event_response", args |-> u, raised |-> raised]

\* a plausible slip: the body is taken from the handle at getresponse
ResponseUpdate_readsBody(host, rv) ==
  [host |-> host, status |-> rv.code, headers |-> rv.headers,
   body |-> Bytes(<< "o", "k" >>)]

\* update_event_response(instance.host, ret_val.code, ret_val.headers, b"")
ResponseUpdate(host, rv) ==
  [host |-> host, status |-> rv.code, headers |-> rv.headers,
   body |-> Bytes(<< >>)]

\* update_event_response(None, instance.code, instance.headers, ret_val)
ReadUpdate(instance, rv) ==
  [host |-> None, status |-> instance.code, headers |-> instance.headers,
   body |-> rv]

\* a plausible slip: only None is left out
ReadGuard_notNone(rv) == rv # None

\* if ret_val:
ReadGuard(rv) == Truthy(rv)

\* a plausible slip: the wrapper forgets to return
WrapperReturn_nothing(rv) == None

\* return ret_val
WrapperReturn(rv) == rv

\* the events after a recording block: an exception in the block is raised
\* before the span is updated
Recorded(ev, u, raised) == IF raised THEN ev ELSE update_event_response(ev, u)

Returned(v, raised) ==
  IF lumigo_safe_execute(raised) THEN [kind |-> "raise", v |-> "span_error"]
  ELSE [kind |-> "return", v |-> WrapperReturn(v)]

\* an intercepted send has recorded its request: a new Event is open
http_send ==
  /\ http_n < MaxHttpCalls
  /\ http_n' = http_n + 1
  /\ events' = add_request_event(events)
  /\ http_last' = HttpCall("send", None, << >>, << >>, NoResult)
  /\ UNCHANGED lifecycle_vars
  /\ UNCHANGED send_vars
  /\ UNCHANGED chalice_vars

\* _response_wrapper: the real getresponse raises, or returns the handle h
http_getresponse ==
  /\ http_n < MaxHttpCalls
  /\ http_n' = http_n + 1
  /\ \/ /\ events' = events
        /\ http_last' = HttpCall("getresponse", "a.io",
                                 << RealCall(None, Raised) >>, << >>,
                                 [kind |-> "raise", v |-> "RemoteDisconnected"])
     \/ \E h \in Handles, raised \in BOOLEAN :
          /\ events' = Recorded(events, ResponseUpdate("a.io", h), raised)
          /\ http_last' =
               HttpCall("getresponse", "a.io", << RealCall(None, h) >>,
                        << UpdateCall(ResponseUpdate("a.io", h), raised) >>,
                        Returned(h, raised))
  /\ UNCHANGED lifecycle_vars
  /\ UNCHANGED send_vars
  /\ UNCHANGED chalice_vars

\* _read_wrapper on the handle h: the real read raises, or returns r
http_read ==
  /\ http_n < MaxHttpCalls
  /\ http_n' = http_n + 1
  /\ \/ /\ events' = events
        /\ http_last' = HttpCall("read", None, << RealCall(None, Raised) >>,
                                 << >>,
                                 [kind |-> "raise", v |-> "IncompleteRead"])
     \/ \E h \in Handles, r \in ReadResults, raised \in BOOLEAN :
          IF ReadGuard(r)
          THEN /\ events' = Recorded(events, ReadUpdate(h, r), raised)
               /\ http_last' =
                    HttpCall("read", h, << RealCall(None, r) >>,
                             << UpdateCall(ReadUpdate(h, r), raised) >>,
                             Returned(r, raised))
          ELSE /\ events' = events
               /\ http_last' =
                    HttpCall("read", h, << RealCall(None, r) >>, << >>,
                             Returned(r, FALSE))
  /\ UNCHANGED lifecycle_vars
  /\ UNCHANGED send_vars
  /\ UNCHANGED chalice_vars

\* a dict as the set of its (key, value) pairs
Dict(items) == [t |-> "dict", v |-> items]

TraceHeader == "X-Amzn-Trace-Id"

\* what get_patched_root() returns
PatchedRoot == "Root=1-patched"

\* the keyword arguments of the intercepted AWSRequest.__init__: the keyword
\* "headers" is absent, or holds a dict, None or a string
PutKwargs ==
  { [has_headers |-> FALSE, headers |-> None, method |-> "GET"] }
  \cup { [has_headers |-> TRUE, headers |-> hs, method |-> "GET"] :
           hs \in { Dict({}), Dict({ << "Accept", "*" >> }),
                    Dict({ << TraceHeader, "Root=1-caller" >> }),
                    None, Str(<< "h" >>) } }

\* d[k] = val on a dict
SetItem(d, k, val) ==
  Dict({ kv \in d.v : kv[1] # k } \cup { << k, val >> })

\* kwargs["headers"]["X-Amzn-Trace-Id"] = root, on a dict
Injected(kw, root) == [kw EXCEPT !.headers = SetItem(@, TraceHeader, root)]

\* what the subscript assignment raises: kwargs["headers"] a KeyError when
\* the keyword is absent, the item assignment a TypeError on None and on str
InjectRaises(kw) ==
  IF ~kw.has_headers THEN "KeyError"
  ELSE IF kw.headers.t # "dict" THEN "TypeError"
  ELSE "none"

\* _putheader_wrapper: the right-hand side get_patched_root() is evaluated
\* first, then the subscript assignment, then the original constructor
http_putheader ==
  /\ http_n < MaxHttpCalls
  /\ http_n' = http_n + 1
  /\ events' = events
  /\ \E kw \in PutKwargs, raised \in BOOLEAN :
       LET root == << [call |-> "get_patched_root", args |-> << >>,
                       raised |-> raised] >>
       IN http_last' =
            IF raised
            THEN HttpCall("putheader", kw, << >>, root,
                          [kind |-> "raise", v |-> "span_error"])
            ELSE IF InjectRaises(kw) # "none"
            THEN HttpCall("putheader", kw, << >>, root,
                          [kind |-> "raise", v |-> InjectRaises(kw)])
            ELSE HttpCall("putheader", kw,
                          << RealCall(Injected(kw, PatchedRoot), None) >>,
                          root,
                          [kind |-> "return", v |-> WrapperReturn(None)])
  /\ UNCHANGED lifecycle_vars
  /\ UNCHANGED send_vars
  /\ UNCHANGED chalice_vars

InitHttp ==
  /\ env = EnvUnset
  /\ InitLifecycle
  /\ NoSend
  /\ NoHttp
  /\ NoChalice

NextHttp ==
  \/ http_send
  \/ http_getresponse
  \/ http_read
  \/ http_putheader

SpecHttp == InitHttp /\ [][NextHttp]_vars

----------------------------------------------------------------------------
(* The header injection and the response recorders *)

HasMapping(kw) == kw.has_headers /\ kw.headers.t = "dict"

\* C12: when the intercepted constructor's header mapping is missing or of
\* unexpected shape, nothing is raised and the original constructor is called
\* with the caller's arguments; when the mapping is present, the original
\* constructor runs with the trace entry set to get_patched_root()
C12_InjectionSkippedOrSet ==
  (http_last.wrapper = "putheader" /\ ~http_last.span[1].raised) =>
    LET kw == http_last.input
    IN IF HasMapping(kw)
       THEN /\ Len(http_last.real) = 1
            /\ << TraceHeader, PatchedRoot >> \in http_last.real[1].args.headers.v
       ELSE /\ http_last.result.kind = "return"
            /\ Len(http_last.real) = 1
            /\ http_last.real[1].args = kw

\* the step is an update made by wrapper w that was carried out
Updated(w) ==
  /\ http_last'.wrapper = w
  /\ Len(http_last'.span) = 1
  /\ ~http_last'.span[1].raised

\* the step leaves every Event but the most recently opened one alone
OnlyLastChanged ==
  /\ Len(events') = Len(events)
  /\ \A i \in 1..(Len(events) - 1) : events'[i] = events[i]

\* C13: at getresponse the most recently opened Event moves from OPEN to
\* RESPONSE_ATTACHED with the handle's status and headers and an empty body;
\* at a non-empty read it moves on to CLOSED with the bytes read as its body;
\* each of the two updates changes no other Event
C13_ResponseThenBody ==
  [][ /\ (Updated("getresponse") /\ EventOpen(events)) =>
           LET n == Len(events)
               h == http_last'.real[1].out
           IN /\ OnlyLastChanged
              /\ events[n].state = "OPEN" =>
                   /\ events'[n].state = "RESPONSE_ATTACHED"
                   /\ events'[n].status = h.code
                   /\ events'[n].headers = h.headers
                   /\ events'[n].body = Bytes(<< >>)
      /\ (Updated("read") /\ EventOpen(events)) =>
           LET n == Len(events)
           IN /\ OnlyLastChanged
              /\ events[n].state = "RESPONSE_ATTACHED" =>
                   /\ events'[n].state = "CLOSED"
                   /\ events'[n].body = http_last'.result.v
                   /\ events'[n].status = http_last'.input.code
                   /\ events'[n].headers = http_last'.input.headers
    ]_vars

\* send, send, getresponse, read of b"ok": the second Event went through the
\* three states, the first is still OPEN
C13_Witness ==
  /\ Len(events) = 2
  /\ events[1].state = "OPEN"
  /\ events[2].trail = << "OPEN", "RESPONSE_ATTACHED", "CLOSED" >>
  /\ events[2].body = Bytes(<< "o", "k" >>)
  /\ http_last.wrapper = "read"

\* the real read returned, and what it returned is falsy
FalsyRead ==
  /\ http_last'.wrapper = "read"
  /\ http_last'.real[1].out.t # "raise"
  /\ ~Truthy(http_last'.real[1].out)

\* C14: a read whose real result is empty or falsy calls no
\* update_event_response, leaves every Event unchanged and returns the
\* result unchanged
C14_FalsyReadNoUpdate ==
  [][ FalsyRead =>
        /\ http_last'.span = << >>
        /\ events' = events
        /\ http_last'.result.kind = "return"
        /\ http_last'.result.v = http_last'.real[1].out
    ]_vars

\* an Event is open, read() returned b"" and nothing was recorded
C14_Witness ==
  /\ http_last.wrapper = "read"
  /\ http_last.real[1].out = Bytes(<< >>)
  /\ http_last.result.kind = "return"
  /\ EventOpen(events)

\* the real getresponse or read returned
RealReturned ==
  /\ http_last'.wrapper \in {"getresponse", "read"}
  /\ http_last'.real[1].out.t # "raise"

\* C15: with no Event open, an intercepted getresponse or read creates and
\* changes no Event, raises nothing from the recording step, and returns the
\* real call's value unchanged
C15_NoOpenEventNoOp ==
  [][ (RealReturned /\ ~EventOpen(events)) =>
        /\ events' = events
        /\ http_last'.result.kind = "return"
        /\ http_last'.result.v = http_last'.real[1].out
    ]_vars

\* a non-empty read after the only Event was closed: the update was called,
\* the Event kept the first body
C15_Witness ==
  /\ http_last.wrapper = "read"
  /\ Len(http_last.span) = 1
  /\ http_last.result.kind = "return"
  /\ http_last.result.v = Bytes(<< "o", "k" >>)
  /\ Len(events) = 1
  /\ events[1].trail = << "OPEN", "CLOSED" >>
  /\ http_n = 3

----------------------------------------------------------------------------
(* LumigoChalice *)

\* number of adapters created from one application
MaxAdapters == 3

DECORATORS_OF_NEW_HANDLERS ==
  { "on_s3_event", "on_sns_message", "on_sqs_message", "schedule",
    "lambda_function" }

\* the names looked up on an adapter
Items == DECORATORS_OF_NEW_HANDLERS \cup { "authorizer", "route", "name" }

\* the configurations an adapter is created with
Confs == { [token |-> "t_1"], [token |-> "t_2", verbose |-> FALSE] }

\* the Chalice application
ChaliceApp == [t |-> "Chalice", name |-> "app"]

\* the user's handlers
Handlers == { [t |-> "function", name |-> "f"] }

\* the attributes of a wrapped object: the application has the registration
\* methods, the object Chalice makes of a handler has not
HasAttr(app, item) ==
  IF app.t = "Chalice" THEN TRUE ELSE item = "name"

\* app.__getattribute__(item)
Attr(app, item) == [t |-> "attr", of |-> app, name |-> item]

\* chalice_actual_decorator(func), chalice_actual_decorator = attr(...)
Decorated(attr, func) == [t |-> "decorated", by |-> attr, func |-> func]

\* LumigoChalice.__init__
LumigoChalice(app, conf) ==
  [t |-> "LumigoChalice", app |-> app, conf |-> conf,
   lumigo_app |-> [t |-> "lumigo_tracer", conf |-> conf, func |-> app]]

\* the closure get_decorator: it holds original_attr and self
GetDecorator(attr, self) ==
  [t |-> "get_decorator", original_attr |-> attr, self |-> self]

\* a plausible slip: the commented-out entry is on the list
Wraps_authorizer(aws, item) ==
  aws /\ item \in DECORATORS_OF_NEW_HANDLERS \cup { "authorizer" }

\* if is_aws_environment() and item in self.DECORATORS_OF_NEW_HANDLERS
Wraps(aws, item) == aws /\ item \in DECORATORS_OF_NEW_HANDLERS

\* __getattr__(self, item), is_aws_environment() returning aws
getattr(self, item, aws) ==
  IF ~HasAttr(self.app, item)
  THEN [kind |-> "raise", v |-> [t |-> "AttributeError", name |-> item]]
  ELSE IF Wraps(aws, item)
  THEN [kind |-> "return", v |-> GetDecorator(Attr(self.app, item), self)]
  ELSE [kind |-> "return", v |-> Attr(self.app, item)]

\* get_decorator(...)(func): wrapper2
wrapper2(dec, func) ==
  LumigoChalice(Decorated(dec.original_attr, func), dec.self.conf)

\* an attribute is looked up on one of the adapters
chalice_getattr ==
  /\ \E a \in 1..Len(chalice_adapters), item \in Items, aws \in BOOLEAN :
       chalice_last' = [op |-> "getattr", adapter |-> a, item |-> item,
                        aws |-> aws,
                        result |-> getattr(chalice_adapters[a], item, aws)]
  /\ UNCHANGED chalice_adapters
  /\ UNCHANGED lifecycle_vars
  /\ UNCHANGED send_vars
  /\ UNCHANGED http_vars

\* the function the last lookup returned is called, and its result applied
\* to a handler
chalice_decorate ==
  /\ chalice_last.op = "getattr"
  /\ chalice_last.result.kind = "return"
  /\ chalice_last.result.v.t = "get_decorator"
  /\ Len(chalice_adapters) < MaxAdapters
  /\ \E func \in Handlers :
       LET new == wrapper2(chalice_last.result.v, func)
       IN /\ chalice_adapters' = Append(chalice_adapters, new)
          /\ chalice_last' = [chalice_last EXCEPT
                                !.op = "decorate",
                                !.result = [kind |-> "return", v |-> new]]
  /\ UNCHANGED lifecycle_vars
  /\ UNCHANGED send_vars
  /\ UNCHANGED http_vars

InitChalice ==
  /\ env = EnvUnset
  /\ InitLifecycle
  /\ NoSend
  /\ NoHttp
  /\ \E conf \in Confs : chalice_adapters = << LumigoChalice(ChaliceApp, conf) >>
  /\ chalice_last = [op |-> "none", adapter |-> 0, item |-> "", aws |-> FALSE,
                     result |-> NoResult]

NextChalice ==
  \/ chalice_getattr
  \/ chalice_decorate

SpecChalice == InitChalice /\ [][NextChalice]_vars

----------------------------------------------------------------------------
(* The framework adapter *)

\* the last call was a lookup of a name the wrapped object has
LookedUp ==
  /\ chalice_last.op = "getattr"
  /\ HasAttr(chalice_adapters[chalice_last.adapter].app, chalice_last.item)

\* the lookup returned a wrapping function
ReturnedWrapping ==
  /\ chalice_last.result.kind = "return"
  /\ chalice_last.result.v.t = "get_decorator"

\* the lookup returned the wrapped object's attribute
ReturnedAttribute ==
  /\ chalice_last.result.kind = "return"
  /\ chalice_last.result.v.t = "attr"
  /\ chalice_last.result.v =
       Attr(chalice_adapters[chalice_last.adapter].app, chalice_last.item)

\* applying the wrapping function to a handler gave a new adapter around the
\* handler as the framework decorated it, with the configuration of the
\* adapter the name was looked up on
NewAdapterCarriesConf ==
  chalice_last.op = "decorate" =>
    LET origin == chalice_adapters[chalice_last.adapter]
        new == chalice_adapters[Len(chalice_adapters)]
    IN /\ chalice_last.result.v = new
       /\ new.t = "LumigoChalice"
       /\ new.app.t = "decorated"
       /\ new.app.by = Attr(origin.app, chalice_last.item)
       /\ new.app.func \in Handlers
       /\ new.conf = origin.conf
       /\ new.lumigo_app.conf = origin.conf

\* C16 as stated: every name on the allowlist gives a wrapping function whose
\* application to a handler yields a new adapter around the decorated handler
\* with the same configuration, every other name gives the wrapped object's
\* attribute unchanged
C16_AllowlistWrapped ==
  /\ LookedUp =>
       IF chalice_last.item \in DECORATORS_OF_NEW_HANDLERS
       THEN ReturnedWrapping
       ELSE ReturnedAttribute
  /\ NewAdapterCarriesConf

\* C16 amended: while is_aws_environment() is true, every name on the
\* allowlist gives a wrapping function whose application to a handler yields
\* a new adapter around the decorated handler with the same configuration;
\* every other name, and every name while is_aws_environment() is false,
\* gives the wrapped object's attribute unchanged
C16_AllowlistWrappedOnAws ==
  /\ LookedUp =>
       IF chalice_last.aws /\ chalice_last.item \in DECORATORS_OF_NEW_HANDLERS
       THEN ReturnedWrapping
       ELSE ReturnedAttribute
  /\ NewAdapterCarriesConf

\* app.schedule(...)(f) through the adapter, twice: the third adapter is
\* around the decorated handler and has the first one's configuration
C16_Witness ==
  /\ chalice_last.op = "decorate"
  /\ chalice_last.item = "schedule"
  /\ Len(chalice_adapters) = 3
  /\ chalice_adapters[3].app.by = Attr(ChaliceApp, "schedule")
  /\ chalice_adapters[3].conf = chalice_adapters[1].conf

====
